---- MODULE Spec2Model ----
(***************************************************************************)
(* Model of 2-sending-a-packet-from-nic/main.cpp: a single-port DPDK       *)
(* traffic generator.  The main thread installs two signal handlers,       *)
(* brings the runtime up, discovers the ports, creates the mbuf pool,      *)
(* configures and starts port_ids[0], and then loops: get an mbuf, stamp   *)
(* Ethernet/IPv4/UDP headers and the payload into it, hand it to           *)
(* rte_eth_tx_burst, sleep, re-check exit_indicator.  The signal handler   *)
(* terminate() runs asynchronously between any two steps of main.          *)
(***************************************************************************)
EXTENDS Integers, Sequences, FiniteSets, TLC

(* ------------------------------------------------------------------ *)
(* Bounds of the model                                                 *)
(* ------------------------------------------------------------------ *)
\* number of mbufs in the pool (1023 in the program, line 143)
NumMbufs == 2
\* capacity of port_ids[] (RTE_MAX_ETHPORTS of the DPDK build, line 119)
RTE_MAX_ETHPORTS == 2
\* cap on transmitted_packet_count (a uint64_t in the program)
MaxSent == 3

(* ------------------------------------------------------------------ *)
(* Program constants                                                   *)
(* ------------------------------------------------------------------ *)
SIGINT == 2
SIGTERM == 15
RTE_ETHER_TYPE_IPV4 == 2048
SizeofEtherHdr == 14
SizeofIpv4Hdr == 20
SizeofUdpHdr == 8
PayloadSize == 172
Ipv4TotalLength == 200
UdpDgramLen == 180
UdpDstPort == 5000
UdpSrcPort == 10000

Signals == {SIGINT, SIGTERM}
Mbufs == 1..NumMbufs
\* the null pointer held by `packet` before rte_mempool_get fills it in
NoMbuf == 0
\* a byte of an mbuf's data room that the program has not written yet
Unwritten == -1

\* exit statuses: the process is still running, or how it ended
Running == -1
SegFault == 139
KilledBy(sig) == 128 + sig

src_mac_addr == <<18, 69, 171, 205, 120, 33>>
dst_mac_addr == <<222, 173, 190, 239, 171, 18>>
src_ip_addr == <<1, 2, 3, 4>>
dest_ip_addr == <<4, 3, 2, 1>>
\* "This is a sample data generated by a DPDK application ..." and its NUL
sample_data ==
  <<84, 104, 105, 115, 32, 105, 115, 32, 97, 32, 115, 97, 109, 112, 108, 101,
    32, 100, 97, 116, 97, 32, 103, 101, 110, 101, 114, 97, 116, 101, 100, 32,
    98, 121, 32, 97, 32, 68, 80, 68, 75, 32, 97, 112, 112, 108, 105, 99, 97,
    116, 105, 111, 110, 32, 46, 46, 46, 0>>

\* bytes of the data room the model keeps: the frame the program builds
DataRoom == SizeofEtherHdr + SizeofIpv4Hdr + SizeofUdpHdr + PayloadSize

(* ------------------------------------------------------------------ *)
(* Memory helpers: data is a sequence of bytes, offsets are 0-based.   *)
(* Each helper takes the value of data once (d \in {data}), so a chain *)
(* of stores is computed stage by stage.                               *)
(* ------------------------------------------------------------------ *)
\* memcpy(data + off, bytes, Len(bytes))
memcpy(data, off, bytes) ==
  CHOOSE r \in {SubSeq(d, 1, off) \o bytes \o SubSeq(d, off + Len(bytes) + 1, Len(d)) :
                  d \in {data}} : TRUE

\* memset(data + off, val, n)
memset(data, off, val, n) ==
  CHOOSE r \in {SubSeq(d, 1, off) \o [i \in 1..n |-> val] \o SubSeq(d, off + n + 1, Len(d)) :
                  d \in {data}} : TRUE

\* a native store of the uint16_t v at data + off on a host of the given order
store16(data, off, v, le) ==
  IF le THEN memcpy(data, off, <<v % 256, v \div 256>>)
        ELSE memcpy(data, off, <<v \div 256, v % 256>>)

\* a native load of the uint16_t at data + off
load16(data, off, le) ==
  IF le THEN data[off + 1] + 256 * data[off + 2]
        ELSE 256 * data[off + 1] + data[off + 2]

\* the 16-bit value at data + off read in network (big-endian) order
be16(data, off) == 256 * data[off + 1] + data[off + 2]

bswap16(v) == (v % 256) * 256 + (v \div 256)

\* rte_cpu_to_be_16: a byte swap on a little-endian host, nothing otherwise
rte_cpu_to_be_16(v, le) == IF le THEN bswap16(v) ELSE v

(* ------------------------------------------------------------------ *)
(* rte_ipv4_cksum, as the DPDK build computes it                       *)
(* ------------------------------------------------------------------ *)
\* the uint32_t sum of n native uint16_t words starting at data + off; a header
\* has at most 30 words, so the 32-bit accumulator cannot wrap
SumNative(data, off, n, le) ==
  LET acc[k \in 0..n] ==
        IF k = 0 THEN 0 ELSE acc[k - 1] + load16(data, off + 2 * (k - 1), le)
  IN  acc[n]

\* __rte_raw_cksum_reduce: fold the carries into the low 16 bits, twice
rte_raw_cksum_reduce(sum) ==
  LET s1 == (sum \div 65536) + (sum % 65536)
      s2 == (s1 \div 65536) + (s1 % 65536)
  IN  s2 % 65536

rte_raw_cksum(data, off, len, le) ==
  rte_raw_cksum_reduce(SumNative(data, off, len \div 2, le))

\* rte_ipv4_hdr_len: the IHL nibble of the first byte, in bytes
rte_ipv4_hdr_len(data, off) == (data[off + 1] % 16) * 4

\* rte_ipv4_cksum: the complement of the raw sum over the header
rte_ipv4_cksum(data, off, le) ==
  65535 - rte_raw_cksum(data, off, rte_ipv4_hdr_len(data, off), le)

(* ------------------------------------------------------------------ *)
(* PacketBuilder: each function maps the data room to the data room    *)
(* ------------------------------------------------------------------ *)
\* set_eth_hdr(eth_hdr), eth_hdr = data + off
set_eth_hdr(data, off, le) ==
  LET d1 == store16(data, off + 12, rte_cpu_to_be_16(RTE_ETHER_TYPE_IPV4, le), le)
      d2 == memcpy(d1, off + 6, src_mac_addr)
  IN  memcpy(d2, off, dst_mac_addr)

\* the fields of set_ipv4_hdr with total_length stored in host order
ipv4_fields_hostOrder(data, off, le) ==
  LET d1 == memcpy(data, off, <<4 * 16 + 5>>)
      d2 == memcpy(d1, off + 1, <<0>>)
      d3 == store16(d2, off + 2, Ipv4TotalLength, le)
      d4 == store16(d3, off + 4, 0, le)
      d5 == store16(d4, off + 6, 64, le)
      d6 == memcpy(d5, off + 8, <<64>>)
  IN  memcpy(d6, off + 9, <<17>>)

\* the fields of set_ipv4_hdr written before the addresses (lines 51-58)
ipv4_fields(data, off, le) ==
  LET d1 == memcpy(data, off, <<4 * 16 + 5>>)
      d2 == memcpy(d1, off + 1, <<0>>)
      d3 == store16(d2, off + 2, rte_cpu_to_be_16(Ipv4TotalLength, le), le)
      d4 == store16(d3, off + 4, 0, le)
      d5 == store16(d4, off + 6, 64, le)
      d6 == memcpy(d5, off + 8, <<64>>)
  IN  memcpy(d6, off + 9, <<17>>)

\* the two address copies of set_ipv4_hdr (lines 60-64)
ipv4_addrs(data, off) ==
  memcpy(memcpy(data, off + 12, src_ip_addr), off + 16, dest_ip_addr)

\* hdr_checksum = 0; hdr_checksum = rte_ipv4_cksum(ipv4_hdr) (lines 66-67)
ipv4_store_cksum(data, off, le) ==
  CHOOSE r \in {store16(z, off + 10, rte_ipv4_cksum(z, off, le), le) :
                  z \in {store16(data, off + 10, 0, le)}} : TRUE

\* set_ipv4_hdr computing the checksum before the addresses are copied
set_ipv4_hdr_cksumFirst(data, off, le) ==
  ipv4_addrs(ipv4_store_cksum(ipv4_fields(data, off, le), off, le), off)

\* set_ipv4_hdr(ipv4_hdr), ipv4_hdr = data + off
set_ipv4_hdr(data, off, le) ==
  ipv4_store_cksum(ipv4_addrs(ipv4_fields(data, off, le), off), off, le)

\* set_udp_hdr with the payload size, not the datagram size, in dgram_len
set_udp_hdr_payloadOnly(data, off, le) ==
  LET d1 == store16(data, off + 2, rte_cpu_to_be_16(UdpDstPort, le), le)
      d2 == store16(d1, off, rte_cpu_to_be_16(UdpSrcPort, le), le)
      d3 == store16(d2, off + 4, rte_cpu_to_be_16(PayloadSize, le), le)
  IN  store16(d3, off + 6, 0, le)

\* set_udp_hdr leaving dgram_cksum as it finds it
set_udp_hdr_cksumUnset(data, off, le) ==
  LET d1 == store16(data, off + 2, rte_cpu_to_be_16(UdpDstPort, le), le)
      d2 == store16(d1, off, rte_cpu_to_be_16(UdpSrcPort, le), le)
  IN  store16(d2, off + 4, rte_cpu_to_be_16(UdpDgramLen, le), le)

\* set_udp_hdr(udp_hdr), udp_hdr = data + off
set_udp_hdr(data, off, le) ==
  LET d1 == store16(data, off + 2, rte_cpu_to_be_16(UdpDstPort, le), le)
      d2 == store16(d1, off, rte_cpu_to_be_16(UdpSrcPort, le), le)
      d3 == store16(d2, off + 4, rte_cpu_to_be_16(UdpDgramLen, le), le)
  IN  store16(d3, off + 6, 0, le)

\* the payload writes of insert_data_udp(payload), payload = data + off
insert_data_udp(data, off) ==
  memcpy(memset(data, off, 0, PayloadSize), off, sample_data)

\* the length insert_data_udp stores in data_len and pkt_len (line 95)
packet_size == SizeofEtherHdr + SizeofIpv4Hdr + SizeofUdpHdr + 172

(* ------------------------------------------------------------------ *)
(* State                                                               *)
(* ------------------------------------------------------------------ *)
VARIABLES
  pc,                       \* the statement main() is about to execute
  exit_status,              \* Running, or the status the process ended with
  exit_indicator,           \* the sig_atomic_t flag of line 31
  handlers,                 \* signals whose disposition is terminate()
  host_le,                  \* TRUE on a little-endian build
  ndev,                     \* ethernet devices the runtime will probe
  eal_up,                   \* rte_eal_init succeeded, rte_eal_cleanup not yet run
  cleanup_calls,            \* calls of rte_eal_cleanup so far
  id,                       \* the iterator of RTE_ETH_FOREACH_DEV
  total_port_count,
  port_ids,
  memory_pool,              \* TRUE when rte_pktmbuf_pool_create returned a pool
  port_state,               \* how far the bring-up of port_ids[0] has come
  setup_err,                \* a setup call of lines 143-170 returned an error
  in_pool,                  \* per mbuf, its number of entries in the pool's ring
  app,                      \* mbufs the application owns
  dev,                      \* mbufs the device's tx queue owns
  mbuf,                     \* per mbuf: data room bytes, data_len, pkt_len
  packet,                   \* the loop's local pointer (line 182)
  tx_packets,               \* the last return value of rte_eth_tx_burst (line 71)
  transmitted_packet_count,
  trace,                    \* the calls made by the current (or last) iteration
  sig_pc,                   \* where main() was when terminate() first ran
  gets_after_signal,        \* mbufs acquired since terminate() first ran
  tx_after_signal,          \* rte_eth_tx_burst calls since terminate() first ran
  dev_returned              \* mbufs the device has put back into the pool so far

vars == <<pc, exit_status, exit_indicator, handlers, host_le, ndev, eal_up,
          cleanup_calls, id, total_port_count, port_ids, memory_pool,
          port_state, setup_err, in_pool, app, dev, mbuf, packet,
          tx_packets, transmitted_packet_count, trace, sig_pc,
          gets_after_signal, tx_after_signal, dev_returned>>

\* groups used by UNCHANGED
sigVars == <<exit_indicator, handlers, sig_pc>>
discVars == <<ndev, id, total_port_count, port_ids>>
setupVars == <<memory_pool, port_state, setup_err>>
bufVars == <<in_pool, app, dev, mbuf, packet, tx_packets, transmitted_packet_count>>
histVars == <<trace, gets_after_signal, tx_after_signal, dev_returned>>

\* the statements of the loop body that run while the application owns `packet`
BuildPcs == {"set_eth_hdr", "set_ipv4_hdr", "set_udp_hdr", "insert_data_udp"}
BodyPcs == BuildPcs \cup {"send_packet", "sleep_200ms"}
LoopPcs == BodyPcs \cup {"while", "rte_mempool_get", "sleep_100ms"}

\* offsets of the headers in the data room (lines 192-204)
EthOff == 0
Ipv4Off == SizeofEtherHdr
UdpOff == SizeofEtherHdr + SizeofIpv4Hdr
PayloadOff == SizeofEtherHdr + SizeofIpv4Hdr + SizeofUdpHdr

\* buffers available in the pool (rte_mempool_avail_count)
RECURSIVE SumOver(_, _)
SumOver(f, S) ==
  IF S = {} THEN 0
  ELSE LET x == CHOOSE y \in S : TRUE IN f[x] + SumOver(f, S \ {x})
avail_count == SumOver(in_pool, Mbufs)

Init ==
  /\ pc = "sigaction_term"
  /\ exit_status = Running
  /\ exit_indicator = 0
  /\ handlers = {}
  /\ host_le \in BOOLEAN
  /\ ndev \in 0..RTE_MAX_ETHPORTS
  /\ eal_up = FALSE
  /\ cleanup_calls = 0
  /\ id = 0
  /\ total_port_count = 0
  /\ port_ids = [i \in 0..(RTE_MAX_ETHPORTS - 1) |-> 0]
  /\ memory_pool = FALSE
  /\ port_state = "unconfigured"
  /\ setup_err = FALSE
  /\ in_pool = [b \in Mbufs |-> 0]
  /\ app = {}
  /\ dev = {}
  /\ mbuf = [b \in Mbufs |->
               [data |-> [i \in 1..DataRoom |-> Unwritten], data_len |-> 0, pkt_len |-> 0]]
  /\ packet = NoMbuf
  /\ tx_packets = 0
  /\ transmitted_packet_count = 0
  /\ trace = <<>>
  /\ sig_pc = "none"
  /\ gets_after_signal = 0
  /\ tx_after_signal = 0
  /\ dev_returned = 0

(* ------------------------------------------------------------------ *)
(* The signal handler                                                  *)
(* ------------------------------------------------------------------ *)
\* a handler that also tears the runtime down
terminate_cleanup ==
  /\ exit_indicator' = 1
  /\ sig_pc' = IF sig_pc = "none" THEN pc ELSE sig_pc
  /\ eal_up' = FALSE
  /\ cleanup_calls' = IF eal_up THEN cleanup_calls + 1 ELSE cleanup_calls
  /\ UNCHANGED <<pc, exit_status, handlers, host_le, discVars, setupVars,
                 bufVars, trace, gets_after_signal, tx_after_signal,
                 dev_returned>>

\* terminate(signal), lines 33-36
terminate ==
  /\ exit_indicator' = 1
  /\ sig_pc' = IF sig_pc = "none" THEN pc ELSE sig_pc
  /\ UNCHANGED <<pc, exit_status, handlers, host_le, eal_up, cleanup_calls,
                 discVars, setupVars, bufVars, histVars>>

\* a signal without a handler has its default disposition: the process dies
DefaultDisposition(sig) ==
  /\ pc' = "exited"
  /\ exit_status' = KilledBy(sig)
  /\ UNCHANGED <<sigVars, host_le, eal_up, cleanup_calls, discVars, setupVars,
                 bufVars, histVars>>

\* delivery of SIGINT or SIGTERM to the running process
Signal ==
  /\ pc # "exited"
  /\ \E sig \in Signals :
       IF sig \in handlers THEN terminate ELSE DefaultDisposition(sig)

(* ------------------------------------------------------------------ *)
(* main(): bring-up, discovery and port configuration                   *)
(* ------------------------------------------------------------------ *)
\* sigaction(SIGTERM, &action, nullptr), line 104
SigactionTerm ==
  /\ pc = "sigaction_term"
  /\ handlers' = handlers \cup {SIGTERM}
  /\ pc' = "sigaction_int"
  /\ UNCHANGED <<exit_status, exit_indicator, sig_pc, host_le, eal_up,
                 cleanup_calls, discVars, setupVars, bufVars, histVars>>

\* sigaction(SIGINT, &action, nullptr), line 105
SigactionInt ==
  /\ pc = "sigaction_int"
  /\ handlers' = handlers \cup {SIGINT}
  /\ pc' = "rte_eal_init"
  /\ UNCHANGED <<exit_status, exit_indicator, sig_pc, host_le, eal_up,
                 cleanup_calls, discVars, setupVars, bufVars, histVars>>

\* rte_eal_init and the check of its return value, lines 109-114
EalInit ==
  /\ pc = "rte_eal_init"
  /\ \E ok \in BOOLEAN :
       IF ok
       THEN /\ eal_up' = TRUE
            /\ pc' = "foreach_dev"
            /\ UNCHANGED exit_status
       ELSE /\ eal_up' = FALSE
            /\ pc' = "exited"
            /\ exit_status' = 1
  /\ UNCHANGED <<sigVars, host_le, cleanup_calls, discVars, setupVars, bufVars, histVars>>

\* one turn of RTE_ETH_FOREACH_DEV(id), lines 124-133
ForeachDev ==
  /\ pc = "foreach_dev"
  /\ IF id < ndev
     THEN /\ port_ids' = [port_ids EXCEPT ![total_port_count] = id]
          /\ total_port_count' = total_port_count + 1
          /\ id' = id + 1
          /\ IF total_port_count + 1 >= RTE_MAX_ETHPORTS
             THEN /\ eal_up' = FALSE
                  /\ cleanup_calls' = cleanup_calls + 1
                  /\ pc' = "exited"
                  /\ exit_status' = 1
             ELSE /\ pc' = "foreach_dev"
                  /\ UNCHANGED <<eal_up, cleanup_calls, exit_status>>
     ELSE /\ pc' = "check_ports"
          /\ UNCHANGED <<port_ids, total_port_count, id, eal_up, cleanup_calls,
                         exit_status>>
  /\ UNCHANGED <<sigVars, host_le, ndev, setupVars, bufVars, histVars>>

\* the zero-port test missing: main goes on to create the pool
CheckPorts_fallThrough ==
  /\ pc = "check_ports"
  /\ pc' = "rte_pktmbuf_pool_create"
  /\ UNCHANGED <<eal_up, cleanup_calls, exit_status>>
  /\ UNCHANGED <<sigVars, host_le, discVars, setupVars, bufVars, histVars>>

\* if (total_port_count == 0), lines 135-139
CheckPorts ==
  /\ pc = "check_ports"
  /\ IF total_port_count = 0
     THEN /\ eal_up' = FALSE
          /\ cleanup_calls' = cleanup_calls + 1
          /\ pc' = "exited"
          /\ exit_status' = 1
     ELSE /\ pc' = "rte_pktmbuf_pool_create"
          /\ UNCHANGED <<eal_up, cleanup_calls, exit_status>>
  /\ UNCHANGED <<sigVars, host_le, discVars, setupVars, bufVars, histVars>>

\* rte_pktmbuf_pool_create, line 143: the result is stored and never tested
PoolCreate ==
  /\ pc = "rte_pktmbuf_pool_create"
  /\ \E ok \in BOOLEAN :
       /\ memory_pool' = ok
       /\ in_pool' = [b \in Mbufs |-> IF ok THEN 1 ELSE 0]
       /\ setup_err' = (setup_err \/ ~ok)
  /\ pc' = "rte_eth_dev_configure"
  /\ UNCHANGED <<exit_status, sigVars, host_le, eal_up, cleanup_calls, discVars,
                 port_state, app, dev, mbuf, packet, tx_packets,
                 transmitted_packet_count, histVars>>

\* rte_eth_dev_configure, line 158: the return value is discarded
DevConfigure ==
  /\ pc = "rte_eth_dev_configure"
  /\ \E ok \in BOOLEAN :
       /\ port_state' = IF ok THEN "configured" ELSE "failed"
       /\ setup_err' = (setup_err \/ ~ok)
  /\ pc' = "rte_eth_rx_queue_setup"
  /\ UNCHANGED <<exit_status, sigVars, host_le, eal_up, cleanup_calls, discVars,
                 memory_pool, bufVars, histVars>>

\* rte_eth_rx_queue_setup, line 166: the return value is discarded; the port
\* transmits without a receive queue
RxQueueSetup ==
  /\ pc = "rte_eth_rx_queue_setup"
  /\ \E ok \in BOOLEAN : setup_err' = (setup_err \/ ~ok)
  /\ pc' = "rte_eth_tx_queue_setup"
  /\ UNCHANGED <<exit_status, sigVars, host_le, eal_up, cleanup_calls, discVars,
                 memory_pool, port_state, bufVars, histVars>>

\* rte_eth_tx_queue_setup, line 167: succeeds only on a configured port
TxQueueSetup ==
  /\ pc = "rte_eth_tx_queue_setup"
  /\ \E ok \in BOOLEAN :
       LET done == ok /\ port_state = "configured"
       IN  /\ port_state' = IF done THEN "tx_queue_ready" ELSE "failed"
           /\ setup_err' = (setup_err \/ ~done)
  /\ pc' = "rte_eth_dev_start"
  /\ UNCHANGED <<exit_status, sigVars, host_le, eal_up, cleanup_calls, discVars,
                 memory_pool, bufVars, histVars>>

\* rte_eth_dev_start, line 170: succeeds only on a port with its tx queue;
\* the loop is entered whatever it returned
DevStart ==
  /\ pc = "rte_eth_dev_start"
  /\ \E ok \in BOOLEAN :
       LET done == ok /\ port_state = "tx_queue_ready"
       IN  /\ port_state' = IF done THEN "started" ELSE "failed"
           /\ setup_err' = (setup_err \/ ~done)
  /\ pc' = "while"
  /\ UNCHANGED <<exit_status, sigVars, host_le, eal_up, cleanup_calls, discVars,
                 memory_pool, bufVars, histVars>>

(* ------------------------------------------------------------------ *)
(* main(): the transmit loop                                           *)
(* ------------------------------------------------------------------ *)
\* the loop test reading a copy of the flag taken when the loop was entered
While_staleFlag ==
  /\ pc = "while"
  /\ IF exit_indicator = 0 \/ sig_pc \in LoopPcs
     THEN /\ pc' = "rte_mempool_get"
          /\ packet' = NoMbuf
          /\ trace' = <<>>
     ELSE /\ pc' = "rte_eal_cleanup"
          /\ UNCHANGED <<packet, trace>>
  /\ UNCHANGED <<exit_status, sigVars, host_le, eal_up, cleanup_calls, discVars,
                 setupVars, in_pool, app, dev, mbuf, tx_packets,
                 transmitted_packet_count, gets_after_signal, tx_after_signal,
                 dev_returned>>

\* a loop that tests the flag only after its first iteration
While_doWhile ==
  /\ pc = "while"
  /\ IF exit_indicator = 0 \/ trace = <<>>
     THEN /\ pc' = "rte_mempool_get"
          /\ packet' = NoMbuf
          /\ trace' = <<>>
     ELSE /\ pc' = "rte_eal_cleanup"
          /\ UNCHANGED <<packet, trace>>
  /\ UNCHANGED <<exit_status, sigVars, host_le, eal_up, cleanup_calls, discVars,
                 setupVars, in_pool, app, dev, mbuf, tx_packets,
                 transmitted_packet_count, gets_after_signal, tx_after_signal,
                 dev_returned>>

\* while (!exit_indicator), line 180, and the declaration of line 182
While ==
  /\ pc = "while"
  /\ IF exit_indicator = 0
     THEN /\ pc' = "rte_mempool_get"
          /\ packet' = NoMbuf
          /\ trace' = <<>>
     ELSE /\ pc' = "rte_eal_cleanup"
          /\ UNCHANGED <<packet, trace>>
  /\ UNCHANGED <<exit_status, sigVars, host_le, eal_up, cleanup_calls, discVars,
                 setupVars, in_pool, app, dev, mbuf, tx_packets,
                 transmitted_packet_count, gets_after_signal, tx_after_signal,
                 dev_returned>>

\* the failure branch releasing the mbuf of an earlier iteration
GetFailed_freeStale ==
  /\ pc' = "sleep_100ms"
  /\ trace' = Append(trace, "get_failed")
  /\ IF dev = {}
     THEN UNCHANGED in_pool
     ELSE \E b \in dev : in_pool' = [in_pool EXCEPT ![b] = @ + 1]
  /\ UNCHANGED <<exit_status, sigVars, host_le, eal_up, cleanup_calls, discVars,
                 setupVars, app, dev, mbuf, packet, tx_packets,
                 transmitted_packet_count, gets_after_signal, tx_after_signal,
                 dev_returned>>

\* the failure branch continuing without the backoff sleep
GetFailed_noBackoff ==
  /\ pc' = "while"
  /\ trace' = Append(trace, "get_failed")
  /\ UNCHANGED <<exit_status, sigVars, host_le, eal_up, cleanup_calls, discVars,
                 setupVars, bufVars, gets_after_signal, tx_after_signal,
                 dev_returned>>

\* rte_mempool_get failed: the branch of lines 184-187 up to the sleep
GetFailed ==
  /\ pc' = "sleep_100ms"
  /\ trace' = Append(trace, "get_failed")
  /\ UNCHANGED <<exit_status, sigVars, host_le, eal_up, cleanup_calls, discVars,
                 setupVars, bufVars, gets_after_signal, tx_after_signal,
                 dev_returned>>

\* rte_mempool_get handing out b without taking it off the pool's ring
GetMbuf_noDequeue(b) ==
  /\ app' = app \cup {b}
  /\ packet' = b
  /\ pc' = "set_eth_hdr"
  /\ trace' = Append(trace, "rte_mempool_get")
  /\ gets_after_signal' = gets_after_signal + exit_indicator
  /\ UNCHANGED <<exit_status, sigVars, host_le, eal_up, cleanup_calls, discVars,
                 setupVars, in_pool, dev, mbuf, tx_packets,
                 transmitted_packet_count, tx_after_signal,
                 dev_returned>>

\* rte_mempool_get handed out mbuf b
GetMbuf(b) ==
  /\ in_pool' = [in_pool EXCEPT ![b] = @ - 1]
  /\ app' = app \cup {b}
  /\ packet' = b
  /\ pc' = "set_eth_hdr"
  /\ trace' = Append(trace, "rte_mempool_get")
  /\ gets_after_signal' = gets_after_signal + exit_indicator
  /\ UNCHANGED <<exit_status, sigVars, host_le, eal_up, cleanup_calls, discVars,
                 setupVars, dev, mbuf, tx_packets, transmitted_packet_count,
                 tx_after_signal,
                 dev_returned>>

\* dereferencing the null memory_pool is undefined: the process faults
NullPoolFault ==
  /\ pc' = "exited"
  /\ exit_status' = SegFault
  /\ UNCHANGED <<sigVars, host_le, eal_up, cleanup_calls, discVars, setupVars,
                 bufVars, histVars>>

\* if (rte_mempool_get(memory_pool, &packet) != 0), line 183
MempoolGet ==
  /\ pc = "rte_mempool_get"
  /\ IF ~memory_pool
     THEN NullPoolFault \/ GetFailed
     ELSE IF avail_count = 0
          THEN GetFailed
          ELSE \E b \in Mbufs : in_pool[b] > 0 /\ GetMbuf(b)

\* a backoff whose continue re-enters the body without the loop test
Sleep100ms_retry ==
  /\ pc = "sleep_100ms"
  /\ pc' = "rte_mempool_get"
  /\ trace' = <<>>
  /\ UNCHANGED <<exit_status, sigVars, host_le, eal_up, cleanup_calls, discVars,
                 setupVars, bufVars, gets_after_signal, tx_after_signal,
                 dev_returned>>

\* std::this_thread::sleep_for(100ms); continue; lines 186-187
Sleep100ms ==
  /\ pc = "sleep_100ms"
  /\ pc' = "while"
  /\ trace' = Append(trace, "sleep_100ms")
  /\ UNCHANGED <<exit_status, sigVars, host_le, eal_up, cleanup_calls, discVars,
                 setupVars, bufVars, gets_after_signal, tx_after_signal,
                 dev_returned>>

\* a build step that tests exit_indicator and leaves the iteration when it is set
BuildStep_checkFlag(at, next, newdata) ==
  /\ pc = at
  /\ IF exit_indicator = 1
     THEN /\ pc' = "while"
          /\ UNCHANGED <<mbuf, trace>>
     ELSE /\ mbuf' = [mbuf EXCEPT ![packet].data = newdata]
          /\ pc' = next
          /\ trace' = Append(trace, at)
  /\ UNCHANGED <<exit_status, sigVars, host_le, eal_up, cleanup_calls, discVars,
                 setupVars, in_pool, app, dev, packet, tx_packets,
                 transmitted_packet_count, gets_after_signal, tx_after_signal,
                 dev_returned>>

\* one header or payload step of the loop body writing the data room of `packet`
BuildStep(at, next, newdata) ==
  /\ pc = at
  /\ mbuf' = [mbuf EXCEPT ![packet].data = newdata]
  /\ pc' = next
  /\ trace' = Append(trace, at)
  /\ UNCHANGED <<exit_status, sigVars, host_le, eal_up, cleanup_calls, discVars,
                 setupVars, in_pool, app, dev, packet, tx_packets,
                 transmitted_packet_count, gets_after_signal, tx_after_signal,
                 dev_returned>>

\* lines 190-193
SetEthHdr ==
  /\ pc = "set_eth_hdr"
  /\ BuildStep("set_eth_hdr", "set_ipv4_hdr",
               set_eth_hdr(mbuf[packet].data, EthOff, host_le))

\* lines 196-197
SetIpv4Hdr ==
  /\ pc = "set_ipv4_hdr"
  /\ BuildStep("set_ipv4_hdr", "set_udp_hdr",
               set_ipv4_hdr(mbuf[packet].data, Ipv4Off, host_le))

\* the UDP step handing the mbuf to send_packet without the payload step
SetUdpHdr_skipsPayload ==
  /\ pc = "set_udp_hdr"
  /\ BuildStep("set_udp_hdr", "send_packet",
               set_udp_hdr(mbuf[packet].data, UdpOff, host_le))

\* lines 200-201
SetUdpHdr ==
  /\ pc = "set_udp_hdr"
  /\ BuildStep("set_udp_hdr", "insert_data_udp",
               set_udp_hdr(mbuf[packet].data, UdpOff, host_le))

\* lines 204-205, with the lengths insert_data_udp stores at line 95
InsertDataUdp ==
  /\ pc = "insert_data_udp"
  /\ mbuf' = [mbuf EXCEPT ![packet] =
                [data |-> insert_data_udp(@.data, PayloadOff),
                 data_len |-> packet_size, pkt_len |-> packet_size]]
  /\ pc' = "send_packet"
  /\ trace' = Append(trace, "insert_data_udp")
  /\ UNCHANGED <<exit_status, sigVars, host_le, eal_up, cleanup_calls, discVars,
                 setupVars, in_pool, app, dev, packet, tx_packets,
                 transmitted_packet_count, gets_after_signal, tx_after_signal,
                 dev_returned>>

(* ------------------------------------------------------------------ *)
(* Transmitter                                                         *)
(* ------------------------------------------------------------------ *)
\* what rte_eth_tx_burst(port_ids[0], 0, &packet, 1) may do: a port that is not
\* started accepts nothing; a started port accepts n of the one mbuf offered
\* and, in the same call, returns to the pool a set R of mbufs it has finished
\* with (possibly the one it has just accepted)
TxBurstOutcome(n, R) ==
  /\ n \in {0, 1}
  /\ port_state # "started" => n = 0 /\ R = {}
  /\ n = 1 => transmitted_packet_count < MaxSent
  /\ R \subseteq dev \cup (IF n = 1 THEN {packet} ELSE {})

\* the rest of send_packet after rte_eth_tx_burst returned n: doFree says
\* whether rte_pktmbuf_free(packet) runs, inc is added to the counter
send_packet(n, R, doFree, inc) ==
  LET pool1 == [b \in Mbufs |-> in_pool[b] + (IF b \in R THEN 1 ELSE 0)]
      dev1 == (dev \cup (IF n = 1 THEN {packet} ELSE {})) \ R
      app1 == IF n = 1 THEN app \ {packet} ELSE app
  IN  /\ tx_packets' = n
      /\ dev' = dev1
      /\ in_pool' = IF doFree THEN [pool1 EXCEPT ![packet] = @ + 1] ELSE pool1
      /\ app' = IF doFree THEN app1 \ {packet} ELSE app1
      /\ transmitted_packet_count' = transmitted_packet_count + inc
      /\ trace' = trace \o <<"rte_eth_tx_burst">>
                        \o (IF doFree THEN <<"rte_pktmbuf_free">> ELSE <<>>)
      /\ tx_after_signal' = tx_after_signal + exit_indicator
      /\ dev_returned' = dev_returned + Cardinality(R)
      /\ pc' = "sleep_200ms"
      /\ UNCHANGED <<exit_status, sigVars, host_le, eal_up, cleanup_calls,
                     discVars, setupVars, mbuf, packet, gets_after_signal>>

\* send_packet without the rte_pktmbuf_free of the rejected mbuf
SendPacket_noFree ==
  /\ pc = "send_packet"
  /\ \E n \in {0, 1}, R \in SUBSET Mbufs :
       /\ TxBurstOutcome(n, R)
       /\ send_packet(n, R, FALSE, n)

\* send_packet freeing the mbuf whatever rte_eth_tx_burst returned
SendPacket_freeAlways ==
  /\ pc = "send_packet"
  /\ \E n \in {0, 1}, R \in SUBSET Mbufs :
       /\ TxBurstOutcome(n, R)
       /\ send_packet(n, R, TRUE, n)

\* send_packet counting every call, accepted or not
SendPacket_countAlways ==
  /\ pc = "send_packet"
  /\ \E n \in {0, 1}, R \in SUBSET Mbufs :
       /\ TxBurstOutcome(n, R)
       /\ transmitted_packet_count < MaxSent
       /\ send_packet(n, R, n = 0, 1)

\* send_packet whose rejected branch leaves the iteration before the sleep
SendPacket_rejectSkipsSleep ==
  /\ pc = "send_packet"
  /\ \E n \in {0, 1}, R \in SUBSET Mbufs :
       /\ TxBurstOutcome(n, R)
       /\ IF n = 1
          THEN send_packet(n, R, FALSE, n)
          ELSE /\ tx_packets' = 0
               /\ in_pool' = [in_pool EXCEPT ![packet] = @ + 1]
               /\ app' = app \ {packet}
               /\ trace' = trace \o <<"rte_eth_tx_burst", "rte_pktmbuf_free">>
               /\ tx_after_signal' = tx_after_signal + exit_indicator
               /\ pc' = "while"
               /\ UNCHANGED <<exit_status, sigVars, host_le, eal_up, cleanup_calls,
                              discVars, setupVars, dev, mbuf, packet,
                              transmitted_packet_count, gets_after_signal,
                              dev_returned>>

\* send_packet(packet, port_ids), lines 70-79, called at line 208
SendPacket ==
  /\ pc = "send_packet"
  /\ \E n \in {0, 1}, R \in SUBSET Mbufs :
       /\ TxBurstOutcome(n, R)
       /\ send_packet(n, R, n = 0, n)

\* std::this_thread::sleep_for(200ms), line 210
Sleep200ms ==
  /\ pc = "sleep_200ms"
  /\ pc' = "while"
  /\ trace' = Append(trace, "sleep_200ms")
  /\ UNCHANGED <<exit_status, sigVars, host_le, eal_up, cleanup_calls, discVars,
                 setupVars, bufVars, gets_after_signal, tx_after_signal,
                 dev_returned>>

\* rte_eal_cleanup(); return 0; lines 213-215
EalCleanup ==
  /\ pc = "rte_eal_cleanup"
  /\ eal_up' = FALSE
  /\ cleanup_calls' = cleanup_calls + 1
  /\ pc' = "exited"
  /\ exit_status' = 0
  /\ UNCHANGED <<sigVars, host_le, discVars, setupVars, bufVars, histVars>>

(* ------------------------------------------------------------------ *)
(* Specification                                                       *)
(* ------------------------------------------------------------------ *)
\* a step of the main thread
Main ==
  \/ SigactionTerm
  \/ SigactionInt
  \/ EalInit
  \/ ForeachDev
  \/ CheckPorts
  \/ PoolCreate
  \/ DevConfigure
  \/ RxQueueSetup
  \/ TxQueueSetup
  \/ DevStart
  \/ While
  \/ MempoolGet
  \/ Sleep100ms
  \/ SetEthHdr
  \/ SetIpv4Hdr
  \/ SetUdpHdr
  \/ InsertDataUdp
  \/ SendPacket
  \/ Sleep200ms
  \/ EalCleanup

Next == Main \/ Signal

Spec == Init /\ [][Next]_vars

\* the main thread keeps running: every sleep and every library call returns
FairSpec == Spec /\ WF_vars(Main)

TypeOK ==
  /\ exit_indicator \in {0, 1}
  /\ handlers \subseteq Signals
  /\ packet \in Mbufs \cup {NoMbuf}
  /\ app \subseteq Mbufs
  /\ dev \subseteq Mbufs
  /\ \A b \in Mbufs : in_pool[b] \in 0..1
  /\ transmitted_packet_count \in 0..MaxSent
  /\ tx_packets \in {0, 1}
  /\ cleanup_calls \in 0..1

(* ------------------------------------------------------------------ *)
(* Properties                                                          *)
(* ------------------------------------------------------------------ *)
\* number of entries of seq equal to x
RECURSIVE Count(_, _)
Count(seq, x) ==
  IF seq = <<>> THEN 0
  ELSE (IF Head(seq) = x THEN 1 ELSE 0) + Count(Tail(seq), x)

\* the calls of an iteration that acquired an mbuf and whose burst returned n
FullIteration(n) ==
  <<"rte_mempool_get", "set_eth_hdr", "set_ipv4_hdr", "set_udp_hdr",
    "insert_data_udp", "rte_eth_tx_burst">>
  \o (IF n = 0 THEN <<"rte_pktmbuf_free">> ELSE <<>>)
  \o <<"sleep_200ms">>

\* holders of mbuf b: its entries in the pool, the application, the device
Holders(b) ==
  in_pool[b] + (IF b \in app THEN 1 ELSE 0) + (IF b \in dev THEN 1 ELSE 0)

\* C1: when send_packet's burst accepts nothing, the call puts the mbuf back
\* into the pool exactly once (one rte_pktmbuf_free, one pool entry, no other
\* holder), leaves transmitted_packet_count as it was, and the application no
\* longer holds the rejected mbuf.
C1_RejectedReleasedOnce ==
  [][ (pc = "send_packet" /\ pc' = "sleep_200ms" /\ tx_packets' = 0) =>
        /\ in_pool[packet] = 0
        /\ in_pool'[packet] = 1
        /\ Count(trace', "rte_pktmbuf_free") = 1
        /\ packet \notin app'
        /\ packet \notin dev'
        /\ app' = {}
        /\ transmitted_packet_count' = transmitted_packet_count ]_vars

\* a started port has just rejected the mbuf and send_packet has released it
C1_Witness ==
  /\ pc = "sleep_200ms"
  /\ port_state = "started"
  /\ tx_packets = 0
  /\ in_pool[packet] = 1
  /\ Count(trace, "rte_pktmbuf_free") = 1

\* C2: when send_packet's burst accepts the mbuf, transmitted_packet_count
\* grows by exactly one, send_packet does not free the mbuf (it has one holder,
\* the device or the pool the device returned it to, and the application is not
\* one), and the rest of the iteration neither writes nor releases it.
C2_SentCountsOnceAndLetsGo ==
  [][ /\ (pc = "send_packet" /\ pc' = "sleep_200ms" /\ tx_packets' = 1) =>
           /\ transmitted_packet_count' = transmitted_packet_count + 1
           /\ Count(trace', "rte_pktmbuf_free") = 0
           /\ packet \notin app'
           /\ Holders(packet)' = 1
      /\ (pc = "sleep_200ms" /\ tx_packets = 1) =>
           /\ mbuf' = mbuf
           /\ in_pool' = in_pool
           /\ app' = app
           /\ dev' = dev
           /\ transmitted_packet_count' = transmitted_packet_count ]_vars

\* the device has accepted the mbuf and the iteration has finished its sleep
C2_Witness ==
  /\ pc = "while"
  /\ tx_packets = 1
  /\ packet \in dev
  /\ transmitted_packet_count = 2
  /\ trace = FullIteration(1)

\* C3: a failed acquisition, the backoff sleep after it and the loop test that
\* follows change neither the pool's available count nor what the application
\* and the device hold, so any number of consecutive failures leaves the count
\* where it was.
C3_FailedGetKeepsPool ==
  [][ (\/ pc' = "sleep_100ms"
       \/ pc = "sleep_100ms"
       \/ (pc = "while" /\ trace = <<"get_failed", "sleep_100ms">>)) =>
        /\ avail_count' = avail_count
        /\ in_pool' = in_pool
        /\ app' = app
        /\ dev' = dev ]_vars

\* the pool exists and is exhausted, an acquisition has failed, and the loop is
\* back at the acquisition after the backoff of an earlier failure
C3_Witness ==
  /\ pc = "sleep_100ms"
  /\ memory_pool
  /\ avail_count = 0
  /\ dev = Mbufs
  /\ trace = <<"get_failed">>

\* C4: every mbuf of the pool has exactly one holder among pool, application
\* and device; the application holds at most one mbuf, the one `packet` points
\* to; it holds none at the loop test, during teardown and after exit.
C4_ExclusiveOwnership ==
  /\ memory_pool => \A b \in Mbufs : Holders(b) = 1
  /\ ~memory_pool => \A b \in Mbufs : Holders(b) = 0
  /\ Cardinality(app) <= 1
  /\ app \subseteq {packet}
  /\ pc \in {"while", "rte_eal_cleanup", "exited"} => app = {}

\* the application holds one mbuf while the device holds another
C4_Witness ==
  /\ pc = "send_packet"
  /\ app = {packet}
  /\ dev # {}
  /\ in_pool[packet] = 0
  /\ packet \notin dev

\* C5: the loop is left for the teardown only from the loop test with the
\* flag set; a statement of the body is followed by the next statement of the
\* body whatever the flag is, and an iteration that acquired an mbuf reaches
\* the loop test having made every call of a full iteration.
C5_ExitOnlyAtBoundary ==
  [][ /\ pc \in BodyPcs => pc' \in BodyPcs \cup {"while"}
      /\ pc' = "rte_eal_cleanup" => (pc = "while" /\ exit_indicator = 1)
      /\ (pc \in BodyPcs /\ pc' = "while") => trace' = FullIteration(tx_packets') ]_vars

\* the flag was set while the headers were being built, and the loop has left
\* after the whole iteration
C5_Witness ==
  /\ pc = "rte_eal_cleanup"
  /\ sig_pc \in BuildPcs
  /\ trace = FullIteration(tx_packets)

\* C6: when terminate() first runs during the pacing sleep, the iteration
\* ends, the loop test sees the flag, no further mbuf is acquired and no
\* further burst is attempted, rte_eal_cleanup runs exactly once and the
\* process exits with status 0; and it does get there.
C6_SignalDuringPacingSleep ==
  /\ [](sig_pc = "sleep_200ms" =>
          /\ pc \in {"sleep_200ms", "while", "rte_eal_cleanup", "exited"}
          /\ gets_after_signal = 0
          /\ tx_after_signal = 0
          /\ pc # "sleep_200ms" => trace = FullIteration(tx_packets)
          /\ cleanup_calls = (IF pc = "exited" THEN 1 ELSE 0)
          /\ pc = "exited" => exit_status = 0)
  /\ (sig_pc = "sleep_200ms") ~> (pc = "exited" /\ exit_status = 0 /\ cleanup_calls = 1)

\* the signal came during the pacing sleep and the process has exited
C6_Witness ==
  /\ sig_pc = "sleep_200ms"
  /\ pc = "exited"
  /\ exit_status = 0
  /\ cleanup_calls = 1
  /\ transmitted_packet_count > 0

\* frames that have been handed to send_packet in this or an earlier iteration
\* and are still where the transmit path left them
HandedToTx ==
  (IF pc \in {"send_packet", "sleep_200ms"} THEN {packet} ELSE {}) \cup dev

\* C7: in every frame handed to the transmit path the IPv4 total-length
\* field, read big-endian, is the header length its IHL encodes (20) plus the
\* UDP header (8) plus the payload (172), that is 200.
C7_Ipv4TotalLength ==
  \A b \in HandedToTx :
    /\ be16(mbuf[b].data, Ipv4Off + 2)
         = rte_ipv4_hdr_len(mbuf[b].data, Ipv4Off) + SizeofUdpHdr + PayloadSize
    /\ rte_ipv4_hdr_len(mbuf[b].data, Ipv4Off) = SizeofIpv4Hdr
    /\ be16(mbuf[b].data, Ipv4Off + 2) = 200

\* a little-endian host is about to transmit a frame, and holds an earlier one
C7_Witness ==
  /\ pc = "send_packet"
  /\ host_le
  /\ dev # {}
  /\ be16(mbuf[packet].data, Ipv4Off + 2) = 200

\* the one's-complement sum of n big-endian 16-bit words, carries folded in
RECURSIVE OnesSumBE(_, _, _)
OnesSumBE(data, off, n) ==
  IF n = 0 THEN 0
  ELSE LET t == be16(data, off) + OnesSumBE(data, off + 2, n - 1)
       IN  IF t > 65535 THEN t - 65535 ELSE t

\* the Internet checksum of the 20-byte header at off, checksum field as zero
InternetChecksum(data, off) ==
  65535 - OnesSumBE(memcpy(data, off + 10, <<0, 0>>), off, SizeofIpv4Hdr \div 2)

\* C8: in every frame handed to the transmit path the stored header checksum
\* is the Internet checksum of the final 20 header bytes with the checksum
\* field as zero, and the one's-complement sum over the header with the stored
\* checksum verifies (its complement is zero).
C8_Ipv4Checksum ==
  \A b \in HandedToTx :
    /\ be16(mbuf[b].data, Ipv4Off + 10) = InternetChecksum(mbuf[b].data, Ipv4Off)
    /\ 65535 - OnesSumBE(mbuf[b].data, Ipv4Off, SizeofIpv4Hdr \div 2) = 0

\* a frame with a non-zero checksum is about to be transmitted, on either host
C8_Witness ==
  /\ pc = "send_packet"
  /\ ~host_le
  /\ be16(mbuf[packet].data, Ipv4Off + 10) = InternetChecksum(mbuf[packet].data, Ipv4Off)
  /\ be16(mbuf[packet].data, Ipv4Off + 10) # 0

\* C9: in every frame handed to the transmit path data_len and pkt_len are
\* both 14 + 20 + 8 + 172, the frame length is the Ethernet header plus the
\* IPv4 total length, and the IPv4 total length is the IPv4 header plus the
\* UDP datagram length, which is 180.
C9_LengthsConsistent ==
  \A b \in HandedToTx :
    /\ mbuf[b].data_len = SizeofEtherHdr + SizeofIpv4Hdr + SizeofUdpHdr + PayloadSize
    /\ mbuf[b].pkt_len = mbuf[b].data_len
    /\ mbuf[b].pkt_len = SizeofEtherHdr + be16(mbuf[b].data, Ipv4Off + 2)
    /\ be16(mbuf[b].data, Ipv4Off + 2)
         = SizeofIpv4Hdr + be16(mbuf[b].data, UdpOff + 4)
    /\ be16(mbuf[b].data, UdpOff + 4) = 180

\* the device holds a frame of 214 bytes
C9_Witness ==
  /\ pc = "sleep_200ms"
  /\ tx_packets = 1
  /\ packet \in dev
  /\ mbuf[packet].pkt_len = 214
  /\ be16(mbuf[packet].data, UdpOff + 4) = 180

\* C10, as claimed: once a setup call of lines 143-170 has failed, the loop is
\* never entered, no mbuf is acquired, nothing is transmitted, and the process
\* exits with status 1.
C10_SetupFailureIsFatal ==
  setup_err =>
    /\ pc \notin LoopPcs
    /\ app = {}
    /\ packet = NoMbuf
    /\ transmitted_packet_count = 0
    /\ pc = "exited" => exit_status = 1

\* discovery ended the process: the only exits with status 1 after
\* rte_eal_cleanup are those of lines 129-131 and 136-138
DiscoveryFatal == pc = "exited" /\ exit_status = 1 /\ cleanup_calls = 1

\* main() is past the discovery and its zero-port test
DiscoveryPassed ==
  pc \in LoopPcs \cup {"rte_pktmbuf_pool_create", "rte_eth_dev_configure",
                       "rte_eth_rx_queue_setup", "rte_eth_tx_queue_setup",
                       "rte_eth_dev_start", "rte_eal_cleanup"}

\* C11, as claimed: discovery is fatal only when no interface or more than
\* RTE_MAX_ETHPORTS interfaces are found; with 1 to RTE_MAX_ETHPORTS interfaces
\* it is never fatal.
C11_FatalIffZeroOrTooMany ==
  /\ DiscoveryFatal => (ndev = 0 \/ ndev > RTE_MAX_ETHPORTS)
  /\ ndev \in 1..RTE_MAX_ETHPORTS => ~DiscoveryFatal

\* C12: with zero interfaces the zero-port test ends the process with status
\* 1 after exactly one rte_eal_cleanup; no mbuf is ever acquired, no burst is
\* ever attempted, transmitted_packet_count stays 0, and nothing runs after
\* the exit.
C12_ZeroPortsExit ==
  /\ [](ndev = 0 =>
          /\ ~DiscoveryPassed
          /\ app = {} /\ dev = {} /\ packet = NoMbuf
          /\ trace = <<>>
          /\ transmitted_packet_count = 0
          /\ total_port_count = 0)
  /\ [][ /\ (pc = "check_ports" /\ total_port_count = 0 /\ pc' # pc) =>
              /\ pc' = "exited"
              /\ exit_status' = 1
              /\ cleanup_calls = 0 /\ cleanup_calls' = 1
              /\ transmitted_packet_count' = 0
         /\ pc # "exited" ]_vars

\* no interface was found and the zero-port test has ended the process
C12_Witness ==
  /\ ndev = 0
  /\ pc = "exited"
  /\ exit_status = 1
  /\ cleanup_calls = 1
  /\ total_port_count = 0

\* C13: transmitted_packet_count never decreases and always equals the number
\* of accepted bursts (mbufs the device holds plus those it has returned); as
\* long as the device has returned none, the pool of NumMbufs holds NumMbufs
\* minus the counter at every loop test, NumMbufs - 1 with counter 1 after one
\* accepted iteration.
C13_CounterAndPool ==
  /\ [](transmitted_packet_count = Cardinality(dev) + dev_returned)
  /\ []((memory_pool /\ dev_returned = 0) =>
          avail_count = NumMbufs - transmitted_packet_count - Cardinality(app))
  /\ []((memory_pool /\ dev_returned = 0 /\ pc = "while") =>
          avail_count = NumMbufs - transmitted_packet_count)
  /\ [][transmitted_packet_count' >= transmitted_packet_count]_vars

\* one full iteration with an accepted burst: counter 1, pool at NumMbufs - 1
C13_Witness ==
  /\ pc = "while"
  /\ dev_returned = 0
  /\ transmitted_packet_count = 1
  /\ avail_count = NumMbufs - 1
  /\ trace = FullIteration(1)

\* C14: in every frame handed to the transmit path the UDP checksum field
\* is zero: set_udp_hdr stores 0 and nothing after it writes the field.
C14_UdpChecksumZero ==
  \A b \in HandedToTx :
    /\ mbuf[b].data[UdpOff + 7] = 0
    /\ mbuf[b].data[UdpOff + 8] = 0

\* a frame with its ports set and a zero UDP checksum is about to be sent
C14_Witness ==
  /\ pc = "send_packet"
  /\ be16(mbuf[packet].data, UdpOff) = UdpSrcPort
  /\ be16(mbuf[packet].data, UdpOff + 2) = UdpDstPort
  /\ be16(mbuf[packet].data, UdpOff + 6) = 0

\* C15: an acquisition that fails goes to the backoff sleep and from there to
\* the loop test, which leaves the loop if the flag is set and only otherwise
\* acquires again; the iteration consists of the failed get and the sleep and
\* changes no mbuf, no holder, and not the counter.
C15_ExhaustedIteration ==
  [][ /\ (pc = "rte_mempool_get" /\ pc' \notin {pc, "exited"} /\ packet' = NoMbuf) =>
           /\ pc' = "sleep_100ms"
           /\ trace' = <<"get_failed">>
           /\ UNCHANGED bufVars
      /\ (pc = "sleep_100ms" /\ pc' # pc) =>
           /\ pc' = "while"
           /\ trace' = <<"get_failed", "sleep_100ms">>
           /\ UNCHANGED bufVars
      /\ (pc = "while" /\ pc' = "rte_mempool_get") => exit_indicator = 0
      /\ (pc = "while" /\ exit_indicator = 1 /\ pc' # pc) => pc' = "rte_eal_cleanup" ]_vars

\* the pool is exhausted, the flag was set during the backoff sleep, and the
\* loop is at its test after the failed iteration
C15_Witness ==
  /\ pc = "while"
  /\ memory_pool
  /\ avail_count = 0
  /\ sig_pc = "sleep_100ms"
  /\ trace = <<"get_failed", "sleep_100ms">>

\* C16: send_packet is always followed by the pacing sleep and the sleep by
\* the loop test; an iteration that acquired an mbuf reaches the loop test
\* only from that sleep, with exactly one burst and one pacing sleep made; a
\* rejected burst does not end the process, and the loop goes on after it
\* unless the flag is set.
C16_OneBurstOnePacingSleep ==
  [][ /\ (pc = "send_packet" /\ pc' # pc) =>
           /\ pc' = "sleep_200ms"
           /\ exit_status' = Running
           /\ Count(trace', "rte_eth_tx_burst") = 1
           /\ Count(trace', "sleep_200ms") = 0
      /\ (pc = "sleep_200ms" /\ pc' # pc) =>
           /\ pc' = "while"
           /\ Count(trace', "rte_eth_tx_burst") = 1
           /\ Count(trace', "sleep_200ms") = 1
      /\ (pc' = "while" /\ pc # "while" /\ Count(trace', "rte_mempool_get") = 1) =>
           pc = "sleep_200ms"
      /\ (pc = "while" /\ tx_packets = 0 /\ exit_indicator = 0 /\ pc' # pc) =>
           pc' = "rte_mempool_get" ]_vars

\* a started port rejected the burst and the loop is at its test after the
\* pacing sleep, about to go on
C16_Witness ==
  /\ pc = "while"
  /\ port_state = "started"
  /\ tx_packets = 0
  /\ exit_indicator = 0
  /\ trace = FullIteration(0)

\* the calls of an iteration up to the point where the frame is complete
BuiltPrefix ==
  <<"rte_mempool_get", "set_eth_hdr", "set_ipv4_hdr", "set_udp_hdr", "insert_data_udp">>

\* C17: the build steps of an iteration run in the order Ethernet, IPv4, UDP,
\* payload with lengths; send_packet is reached, and a burst made, only after
\* all of them in this iteration, and no frame handed to the transmit path
\* has an unwritten byte or an unset length.
C17_BuiltBeforeTransmit ==
  /\ pc = "set_eth_hdr" => trace = SubSeq(BuiltPrefix, 1, 1)
  /\ pc = "set_ipv4_hdr" => trace = SubSeq(BuiltPrefix, 1, 2)
  /\ pc = "set_udp_hdr" => trace = SubSeq(BuiltPrefix, 1, 3)
  /\ pc = "insert_data_udp" => trace = SubSeq(BuiltPrefix, 1, 4)
  /\ pc = "send_packet" => trace = BuiltPrefix
  /\ Count(trace, "rte_eth_tx_burst") > 0 =>
       SubSeq(trace, 1, 6) = BuiltPrefix \o <<"rte_eth_tx_burst">>
  /\ \A b \in HandedToTx :
       /\ \A i \in 1..DataRoom : mbuf[b].data[i] # Unwritten
       /\ mbuf[b].data_len = packet_size
       /\ mbuf[b].pkt_len = packet_size

\* an mbuf that was sent, returned by the device and built again is about to
\* be handed to the transmit path
C17_Witness ==
  /\ pc = "send_packet"
  /\ dev_returned > 0
  /\ in_pool[packet] = 0
  /\ transmitted_packet_count >= NumMbufs
  /\ trace = BuiltPrefix

\* C18: a step that changes the flag sets it to 1 and changes nothing of the
\* main thread, the pool, the device, the counter or the held mbuf, wherever
\* the main thread is; and a set flag is never cleared, whatever signals
\* follow.
C18_HandlerSetsOnlyFlag ==
  [][ /\ (exit_indicator' # exit_indicator \/ sig_pc' # sig_pc) =>
           /\ exit_indicator' = 1
           /\ UNCHANGED <<pc, exit_status, handlers, host_le, eal_up,
                          cleanup_calls, discVars, setupVars, bufVars, trace,
                          gets_after_signal, tx_after_signal, dev_returned>>
      /\ exit_indicator = 1 => exit_indicator' = 1 ]_vars

\* the handler ran while the main thread held a built mbuf before the burst
C18_Witness ==
  /\ exit_indicator = 1
  /\ sig_pc = "send_packet"
  /\ pc = "send_packet"
  /\ app = {packet}
  /\ eal_up
  /\ cleanup_calls = 0

\* C19: once the flag is set the loop calls rte_mempool_get at most once more
\* and rte_eth_tx_burst at most once more, and, the main thread being
\* scheduled, a loop with the flag set ends in the exit after one
\* rte_eal_cleanup with status 0.  The one call that does not return is
\* rte_mempool_get faulting on a NULL pool, which ends the process instead.
C19_ExitsAfterSignal ==
  /\ [](gets_after_signal <= 1 /\ tx_after_signal <= 1)
  /\ (exit_indicator = 1 /\ pc \in LoopPcs) ~>
       (pc = "exited" /\ \/ exit_status = 0 /\ cleanup_calls = 1
                         \/ exit_status = SegFault)

\* the flag was set just before an acquisition, the one further burst was
\* rejected, and the process went through teardown
C19_Witness ==
  /\ pc = "exited"
  /\ exit_status = 0
  /\ cleanup_calls = 1
  /\ sig_pc = "rte_mempool_get"
  /\ gets_after_signal = 1
  /\ tx_after_signal = 1
  /\ tx_packets = 0

\* the handler first ran after both handlers were installed and before the
\* loop condition was evaluated for the first time
SignalBeforeLoop ==
  \/ sig_pc \in {"rte_eal_init", "foreach_dev", "check_ports",
                 "rte_pktmbuf_pool_create", "rte_eth_dev_configure",
                 "rte_eth_rx_queue_setup", "rte_eth_tx_queue_setup",
                 "rte_eth_dev_start"}
  \/ sig_pc = "while" /\ trace = <<>>

\* C20: when the flag is set between the installation of the handlers and the
\* first loop test, the body never runs: no rte_mempool_get, no burst, no
\* mbuf leaves the pool, the counter is 0; and once discovery has passed the
\* process ends with one rte_eal_cleanup and status 0.
C20_SignalBeforeLoop ==
  /\ [](SignalBeforeLoop =>
          /\ pc \notin BodyPcs
          /\ gets_after_signal = 0
          /\ tx_after_signal = 0
          /\ trace = <<>>
          /\ app = {} /\ dev = {} /\ packet = NoMbuf
          /\ transmitted_packet_count = 0
          /\ cleanup_calls <= 1
          /\ (pc = "exited" /\ exit_status = 0) => cleanup_calls = 1)
  /\ (SignalBeforeLoop /\ DiscoveryPassed) ~>
       (pc = "exited" /\ exit_status = 0 /\ cleanup_calls = 1
          /\ transmitted_packet_count = 0)

\* the flag was set during port configuration, the port was started, and the
\* process left through teardown without an iteration
C20_Witness ==
  /\ sig_pc = "rte_eth_dev_configure"
  /\ port_state = "started"
  /\ memory_pool
  /\ pc = "exited"
  /\ exit_status = 0
  /\ cleanup_calls = 1
  /\ transmitted_packet_count = 0
  /\ trace = <<>>

====
